---- MODULE Spec2Model ----
(***************************************************************************)
(* Model of the GeometryPage component (the drawing surface): the view     *)
(* transform, the pointer/keyboard/wheel handlers, the eraser, the single  *)
(* slot undo/redo and the page manager with its localStorage.              *)
(*                                                                         *)
(* JavaScript numbers are modelled as exact rationals <<n, d>> (d > 0,     *)
(* lowest terms): every arithmetic expression of the source is evaluated   *)
(* by the same formula in rational arithmetic.  IEEE-754 rounding is not   *)
(* modelled.  A comparison Math.hypot(u, v) <= r with r >= 0 is evaluated  *)
(* as u*u + v*v <= r*r.                                                    *)
(*                                                                         *)
(* A value of type T | null is the sequence <<>> (null) or <<v>>.          *)
(* Each event handler runs to completion on the state of the latest        *)
(* render, so each handler is one atomic action.                           *)
(***************************************************************************)
EXTENDS Integers, Sequences, FiniteSets, TLC

(***************************************************************************)
(* Bounds of the model.                                                    *)
(***************************************************************************)
\* largest number of shapes the working store may hold
MaxShapes == 2
\* largest number of points of an in-progress brush path
MaxPath == 3
\* number of wheel events in one behaviour
MaxWheel == 2
\* number of pan moves in one behaviour
MaxPan == 2
\* number of pages that may exist at the same time
MaxPages == 2

(***************************************************************************)
(* Rational arithmetic.                                                    *)
(***************************************************************************)
Abs(n) == IF n < 0 THEN -n ELSE n

RECURSIVE GCD(_, _)
GCD(a, b) == IF b = 0 THEN a ELSE GCD(b, a % b)

\* n/d in lowest terms with a positive denominator (d # 0)
Norm(n, d) ==
  IF d = 1 THEN <<n, 1>>
  ELSE IF d < 0
  THEN <<(0 - n) \div GCD(Abs(n), Abs(d)), (0 - d) \div GCD(Abs(n), Abs(d))>>
  ELSE <<n \div GCD(Abs(n), Abs(d)), d \div GCD(Abs(n), Abs(d))>>

R(n) == <<n, 1>>
RAdd(a, b) ==
  IF a[2] = b[2] THEN Norm(a[1] + b[1], a[2])
  ELSE Norm(a[1] * b[2] + b[1] * a[2], a[2] * b[2])
RSub(a, b) ==
  IF a[2] = b[2] THEN Norm(a[1] - b[1], a[2])
  ELSE Norm(a[1] * b[2] - b[1] * a[2], a[2] * b[2])
\* a * b and a / b (b # 0)
RMul(a, b) ==
  IF a[2] = 1 /\ b[2] = 1 THEN <<a[1] * b[1], 1>>
  ELSE Norm(a[1] * b[1], a[2] * b[2])
RDiv(a, b) ==
  IF b[1] < 0 THEN RMul(a, <<-b[2], -b[1]>>) ELSE RMul(a, <<b[2], b[1]>>)
\* denominators are positive, so the order is that of the cross products
RLe(a, b) == a[1] * b[2] <= b[1] * a[2]
RLt(a, b) == a[1] * b[2] < b[1] * a[2]
RMin(a, b) == IF RLe(a, b) THEN a ELSE b
RMax(a, b) == IF RLe(a, b) THEN b ELSE a
RAbs(a) == <<Abs(a[1]), a[2]>>

Pt(x, y) == [x |-> x, y |-> y]
IPt(x, y) == [x |-> R(x), y |-> R(y)]

None == <<>>
Some(v) == <<v>>


(***************************************************************************)
(* Inputs of the handlers.                                                 *)
(***************************************************************************)
\* positions of the pointer on the canvas (getCanvasPoint), in pixels
ScreenPts == {IPt(0, 0), IPt(20, 5), IPt(40, 0), IPt(40, 40)}
\* Math.exp(-deltaY * 0.001) of the wheel events
ZoomFactors == {<<8, 1>>, <<1, 8>>}
\* values of the colour input and of the width and eraser size sliders
Colors == {"#111827", "#ef4444"}
Widths == {2}
EraserSizes == {18, 6}
Tools == {"solid", "dashed", "brush", "eraser"}
NoTool == "null"
\* names typed into prompt()
PageNames == {"Trang 1", "Trang 2"}

VARIABLES
  currentTool,      \* Tool, NoTool for null
  shapes,           \* the working store: sequence of shapes
  isDrawing,
  startPoint,       \* Point | null
  previewEnd,       \* Point | null
  strokeColor,
  strokeWidth,
  currentPath,      \* Point[] | null
  snapPreview,      \* Point | null
  hoverWorld,       \* Point | null
  scale,
  offset,
  isPanning,
  panLastRef,       \* Point | null
  isErasing,
  eraserSizePx,
  lastUndoneShape,  \* Shape | null: the redo buffer
  pages,            \* sequence of page records
  currentPageId,    \* id | null
  isDirty,
  storage,          \* localStorage: [pages, current]
  mounted,          \* the mount effect (load pages) has run
  wheels,           \* wheel events so far
  pans              \* pan moves so far

vars == <<currentTool, shapes, isDrawing, startPoint, previewEnd, strokeColor,
          strokeWidth, currentPath, snapPreview, hoverWorld, scale, offset,
          isPanning, panLastRef, isErasing, eraserSizePx, lastUndoneShape,
          pages, currentPageId, isDirty, storage, mounted, wheels, pans>>

gestureVars == <<isDrawing, startPoint, previewEnd, currentPath, snapPreview,
                 isPanning, panLastRef, isErasing>>
styleVars == <<strokeColor, strokeWidth, eraserSizePx>>
viewVars == <<scale, offset>>
pageVars == <<pages, currentPageId, storage>>
boundVars == <<wheels, pans>>

\* mutant: the style of a segment is not taken from the tool
SegmentAlwaysSolid(start, end, style, color, width) ==
  [type |-> "segment", start |-> start, end |-> end, style |-> "solid",
   color |-> color, width |-> width]

Segment(start, end, style, color, width) ==
  [type |-> "segment", start |-> start, end |-> end, style |-> style,
   color |-> color, width |-> width]

\* mutant: the point of the pointer-down is left out of the stored path
BrushPathWithoutFirst(points, color, width) ==
  [type |-> "path", points |-> SubSeq(points, 2, Len(points)),
   color |-> color, width |-> width]

BrushPath(points, color, width) ==
  [type |-> "path", points |-> points, color |-> color, width |-> width]

(***************************************************************************)
(* Coordinate transform: screen = world * scale + offset.                  *)
(***************************************************************************)
worldToScreen(p) ==
  Pt(RAdd(RMul(p.x, scale), offset.x), RAdd(RMul(p.y, scale), offset.y))

\* mutant: the division comes before the subtraction
screenToWorldDividesFirst(p) ==
  Pt(RSub(RDiv(p.x, scale), offset.x), RSub(RDiv(p.y, scale), offset.y))

screenToWorld(p) ==
  Pt(RDiv(RSub(p.x, offset.x), scale), RDiv(RSub(p.y, offset.y), scale))

(***************************************************************************)
(* Snapping helpers.                                                       *)
(***************************************************************************)
RECURSIVE EndpointsOf(_)
EndpointsOf(ss) ==
  IF ss = <<>> THEN <<>>
  ELSE LET s == Head(ss)
           e == IF s.type = "segment" THEN <<s.start, s.end>>
                ELSE IF Len(s.points) > 0
                     THEN <<s.points[1], s.points[Len(s.points)]>>
                     ELSE <<>>
       IN  e \o EndpointsOf(Tail(ss))

getAllEndpoints == EndpointsOf(shapes)

\* the square of Math.hypot(dx, dy)
HypotSq(dx, dy) == RAdd(RMul(dx, dx), RMul(dy, dy))

\* dx*dx + dy*dy of the screen images a and b of two world points
ScreenDistOf(a, b) == HypotSq(RSub(a.x, b.x), RSub(a.y, b.y))
ScreenDist2(world, ep) == ScreenDistOf(worldToScreen(world), worldToScreen(ep))

tolPx == 12

\* mutant: the loop keeps the first endpoint within the tolerance
SnapStepFirst(ep, d2, best) ==
  IF RLe(d2, R(tolPx * tolPx)) /\ best = <<>>
  THEN <<[p |-> ep, d2 |-> d2]>>
  ELSE best

\* one round of the loop of snapToEndpoints: best is <<>> or <<[p, d2]>>
SnapStep(ep, d2, best) ==
  IF RLe(d2, R(tolPx * tolPx)) /\ (best = <<>> \/ RLt(d2, best[1].d2))
  THEN <<[p |-> ep, d2 |-> d2]>>
  ELSE best

RECURSIVE SnapLoop(_, _, _)
SnapLoop(eps, world, best) ==
  IF eps = <<>> THEN best
  ELSE SnapLoop(Tail(eps), world,
                SnapStep(Head(eps), ScreenDist2(world, Head(eps)), best))

\* mutant: the loop result is dropped and no endpoint is ever returned
BestPointNone(best) == None

BestPoint(best) == IF best = <<>> THEN None ELSE Some(best[1].p)

snapToEndpoints(world) == BestPoint(SnapLoop(getAllEndpoints, world, <<>>))

\* Math.sqrt on non-negative integers, rounded down
ISqrt(v) == CHOOSE k \in 0..v : k * k <= v /\ (k + 1) * (k + 1) > v
IsSquare(v) == ISqrt(v) * ISqrt(v) = v
\* denominator of the grid an irrational square root is rounded to
SqrtGrid == 16
\* the square root of a rational q >= 0: exact when q is the square of a
\* rational, else rounded down to a multiple of 1/SqrtGrid
RSqrt(q) ==
  IF IsSquare(q[1]) /\ IsSquare(q[2])
  THEN Norm(ISqrt(q[1]), ISqrt(q[2]))
  ELSE Norm(ISqrt((q[1] * SqrtGrid * SqrtGrid) \div q[2]), SqrtGrid)

\* near(deg, b) of snapAxisFromStart, deg = atan2(dy, dx) in degrees, decided
\* on (dx, dy).  tan 10 lies between 70/397 and 3/17 and tan 35 between 7/10
\* and 278/397, so for slopes whose reduced denominator is below 397
\*   |v| <= tan(10) * u  iff  17 * |v| < 3 * u
\*   tan(35) * u <= |v|  iff  7 * u < 10 * |v|
\* mutant: a tolerance of 30 degrees (tan 30 is about 4/7)
Within30(u, v) ==
  RLt(R(0), u) /\ RLt(RMul(R(7), RAbs(v)), RMul(R(4), u))
Within10(u, v) ==
  RLt(R(0), u) /\ RLt(RMul(R(17), RAbs(v)), RMul(R(3), u))
Within10Of45(u, v) ==
  /\ RLt(R(0), u) /\ RLt(R(0), v)
  /\ RLt(RMul(R(7), u), RMul(R(10), v))
  /\ RLt(RMul(R(7), v), RMul(R(10), u))

RNeg(a) == <<-a[1], a[2]>>
RSign(a) == IF a[1] < 0 THEN R(-1) ELSE R(1)

\* start + (cos t, sin t) * len for t in 45, 135, -45, -135 degrees:
\* m is |cos t| * len = |sin t| * len = Math.SQRT1_2 * len
DiagonalFrom(start, dx, dy, m) ==
  Pt(RAdd(start.x, RMul(RSign(dx), m)), RAdd(start.y, RMul(RSign(dy), m)))

\* the branches of snapAxisFromStart on dx = end.x - start.x, dy = end.y - start.y
snapAxisOf(start, end, dx, dy) ==
  IF (dx = R(0) /\ dy = R(0)) \/ Within10(dx, dy) \/ Within10(RNeg(dx), dy)
  THEN Pt(end.x, start.y)
  ELSE IF Within10(dy, dx) \/ Within10(RNeg(dy), dx)
  THEN Pt(start.x, end.y)
  ELSE IF Within10Of45(RAbs(dx), RAbs(dy))
  THEN DiagonalFrom(start, dx, dy, RSqrt(RDiv(HypotSq(dx, dy), R(2))))
  ELSE end

snapAxisFromStart(start, end) ==
  snapAxisOf(start, end, RSub(end.x, start.x), RSub(end.y, start.y))

(***************************************************************************)
(* Eraser helpers.                                                         *)
(***************************************************************************)
\* mutant: the projection parameter t is not clamped
NoClamp(t) == t

\* t = Math.max(0, Math.min(1, t))
Clamp01(t) == RMax(R(0), RMin(R(1), t))

\* the square of Math.hypot(p.x - cx, p.y - cy), with c = a + t * ab
ClosestSq(p, a, abx, aby, t) ==
  HypotSq(RSub(p.x, RAdd(a.x, RMul(t, abx))), RSub(p.y, RAdd(a.y, RMul(t, aby))))

\* the two branches of distancePointToSegment, on its local constants
SegmentDistSq(p, a, abx, aby, apx, apy, abLen2) ==
  IF abLen2 = R(0)
  THEN HypotSq(apx, apy)
  ELSE ClosestSq(p, a, abx, aby,
                 Clamp01(RDiv(RAdd(RMul(apx, abx), RMul(apy, aby)), abLen2)))

SegmentDistOf(p, a, abx, aby, apx, apy) ==
  SegmentDistSq(p, a, abx, aby, apx, apy, RAdd(RMul(abx, abx), RMul(aby, aby)))

\* the square of distancePointToSegment(p, a, b)
distancePointToSegmentSq(p, a, b) ==
  SegmentDistOf(p, a, RSub(b.x, a.x), RSub(b.y, a.y),
                RSub(p.x, a.x), RSub(p.y, a.y))

radiusWorld == RDiv(R(eraserSizePx), scale)

\* d <= radiusWorld, for d given by its square
WithinRadius(d2) == RLe(d2, RMul(radiusWorld, radiusWorld))

\* mutant: the loop over the point pairs of a path stops one pair early
EraseHitsShortLoop(s, worldPoint) ==
  IF s.type = "segment"
  THEN WithinRadius(distancePointToSegmentSq(worldPoint, s.start, s.end))
  ELSE LET pts == s.points
       IN  IF Len(pts) <= 1
           THEN /\ Len(pts) = 1
                /\ WithinRadius(HypotSq(RSub(worldPoint.x, pts[1].x),
                                        RSub(worldPoint.y, pts[1].y)))
           ELSE \E i \in 2..(Len(pts) - 1) :
                  WithinRadius(distancePointToSegmentSq(worldPoint, pts[i - 1], pts[i]))

\* the decision of eraseAt's loop body for one shape: TRUE when it is dropped
EraseHits(s, worldPoint) ==
  IF s.type = "segment"
  THEN WithinRadius(distancePointToSegmentSq(worldPoint, s.start, s.end))
  ELSE LET pts == s.points
       IN  IF Len(pts) <= 1
           THEN \* d0 is Infinity for an empty path
                /\ Len(pts) = 1
                /\ WithinRadius(HypotSq(RSub(worldPoint.x, pts[1].x),
                                        RSub(worldPoint.y, pts[1].y)))
           ELSE \E i \in 2..Len(pts) :
                  WithinRadius(distancePointToSegmentSq(worldPoint, pts[i - 1], pts[i]))

\* mutant: only the first shape that is hit is dropped
RECURSIVE KeptButFirstHit(_, _)
KeptButFirstHit(ss, worldPoint) ==
  IF ss = <<>> THEN <<>>
  ELSE IF EraseHits(Head(ss), worldPoint)
       THEN Tail(ss)
       ELSE <<Head(ss)>> \o KeptButFirstHit(Tail(ss), worldPoint)

\* the list eraseAt's updater returns: the shapes of ss that are not hit
RECURSIVE Kept(_, _)
Kept(ss, worldPoint) ==
  IF ss = <<>> THEN <<>>
  ELSE IF EraseHits(Head(ss), worldPoint)
       THEN Kept(Tail(ss), worldPoint)
       ELSE <<Head(ss)>> \o Kept(Tail(ss), worldPoint)

\* mutant: eraseAt without its setLastUndoneShape(null)
eraseUpdateKeepsRedo(kept) ==
  /\ shapes' = kept
  /\ isDirty' = ((Len(kept) # Len(shapes)) \/ isDirty)
  /\ lastUndoneShape' = lastUndoneShape

\* the state updates of eraseAt, kept being the list its updater returns:
\* changed is true exactly when a shape was left out of kept
eraseUpdate(kept) ==
  /\ shapes' = kept
  /\ isDirty' = ((Len(kept) # Len(shapes)) \/ isDirty)
  /\ lastUndoneShape' = None

eraseAt(worldPoint) == eraseUpdate(Kept(shapes, worldPoint))

(***************************************************************************)
(* Pointer handlers.  pScreen is getCanvasPoint(evt).                      *)
(***************************************************************************)
handleMouseDown(pScreen) ==
  /\ mounted
  /\ IF currentTool = "eraser"
     THEN /\ hoverWorld' = Some(screenToWorld(pScreen))
          /\ isErasing' = TRUE
          /\ eraseAt(screenToWorld(pScreen))
          /\ UNCHANGED <<isDrawing, startPoint, previewEnd, currentPath,
                         snapPreview, isPanning, panLastRef>>
     ELSE IF currentTool = NoTool
     THEN /\ isPanning' = TRUE
          /\ panLastRef' = Some(pScreen)
          /\ UNCHANGED <<isDrawing, startPoint, previewEnd, currentPath,
                         snapPreview, isErasing, hoverWorld, shapes, isDirty,
                         lastUndoneShape>>
     ELSE IF currentTool = "brush"
     THEN /\ currentPath' = Some(<<screenToWorld(pScreen)>>)
          /\ isDrawing' = TRUE
          /\ UNCHANGED <<startPoint, previewEnd, snapPreview, isPanning,
                         panLastRef, isErasing, hoverWorld, shapes, isDirty,
                         lastUndoneShape>>
     ELSE LET pWorld == screenToWorld(pScreen)
              snap == snapToEndpoints(pWorld)
              snappedStart == IF snap # None THEN snap[1] ELSE pWorld
          IN  /\ startPoint' = Some(snappedStart)
              /\ previewEnd' = Some(snappedStart)
              /\ isDrawing' = TRUE
              /\ UNCHANGED <<currentPath, snapPreview, isPanning, panLastRef,
                             isErasing, hoverWorld, shapes, isDirty,
                             lastUndoneShape>>
  /\ UNCHANGED <<currentTool, styleVars, viewVars, pageVars, mounted, boundVars>>

\* mutant: a pan that moves the view by the pointer delta times the scale
PanOffsetScaled(pScreen) ==
  Pt(RAdd(offset.x, RMul(RSub(pScreen.x, panLastRef[1].x), scale)),
     RAdd(offset.y, RMul(RSub(pScreen.y, panLastRef[1].y), scale)))

\* setOffset((o) => ({ x: o.x + dx, y: o.y + dy })) with the pointer delta
PanOffset(pScreen) ==
  Pt(RAdd(offset.x, RSub(pScreen.x, panLastRef[1].x)),
     RAdd(offset.y, RSub(pScreen.y, panLastRef[1].y)))

handleMouseMove(pScreen) ==
  /\ mounted
  /\ hoverWorld' = Some(screenToWorld(pScreen))
  /\ IF isPanning
     THEN /\ pans < MaxPan
          /\ pans' = pans + 1
          /\ offset' = IF panLastRef # None THEN PanOffset(pScreen) ELSE offset
          /\ panLastRef' = Some(pScreen)
          /\ UNCHANGED <<shapes, isDirty, lastUndoneShape, currentPath,
                         previewEnd, snapPreview>>
     ELSE IF isErasing /\ currentTool = "eraser"
     THEN /\ eraseAt(screenToWorld(pScreen))
          /\ UNCHANGED <<offset, panLastRef, pans, currentPath, previewEnd,
                         snapPreview>>
     ELSE IF ~isDrawing
     THEN UNCHANGED <<offset, panLastRef, pans, shapes, isDirty,
                      lastUndoneShape, currentPath, previewEnd, snapPreview>>
     ELSE IF currentTool = "brush"
     THEN /\ currentPath # None => Len(currentPath[1]) < MaxPath
          /\ currentPath' = IF currentPath # None
                            THEN Some(Append(currentPath[1], screenToWorld(pScreen)))
                            ELSE Some(<<screenToWorld(pScreen)>>)
          /\ UNCHANGED <<offset, panLastRef, pans, shapes, isDirty,
                         lastUndoneShape, previewEnd, snapPreview>>
     ELSE LET pWorld == screenToWorld(pScreen)
              snap == snapToEndpoints(pWorld)
              snappedEnd == IF snap # None THEN snap[1]
                            ELSE IF startPoint # None
                                 THEN snapAxisFromStart(startPoint[1], pWorld)
                                 ELSE pWorld
          IN  /\ previewEnd' = Some(snappedEnd)
              /\ snapPreview' = snap
              /\ UNCHANGED <<offset, panLastRef, pans, shapes, isDirty,
                             lastUndoneShape, currentPath>>
  /\ UNCHANGED <<currentTool, isDrawing, startPoint, isPanning, isErasing,
                 styleVars, scale, pageVars, mounted, wheels>>

\* mutant: a commit that leaves the redo buffer as it is
commitShapeKeepsRedo(s) ==
  /\ shapes' = Append(shapes, s)
  /\ isDirty' = TRUE
  /\ lastUndoneShape' = lastUndoneShape

\* the updates both commit branches of handleMouseUp make:
\* setShapes(prev => [...prev, s]); setIsDirty(true); setLastUndoneShape(null)
commitShape(s) ==
  /\ shapes' = Append(shapes, s)
  /\ isDirty' = TRUE
  /\ lastUndoneShape' = None

handleMouseUp(pScreen) ==
  /\ mounted
  /\ IF isErasing
     THEN /\ isErasing' = FALSE
          /\ UNCHANGED <<isPanning, panLastRef, isDrawing, startPoint,
                         previewEnd, currentPath, snapPreview, shapes, isDirty,
                         lastUndoneShape>>
     ELSE IF isPanning
     THEN /\ isPanning' = FALSE
          /\ panLastRef' = None
          /\ UNCHANGED <<isErasing, isDrawing, startPoint, previewEnd,
                         currentPath, snapPreview, shapes, isDirty,
                         lastUndoneShape>>
     ELSE IF ~isDrawing
     THEN UNCHANGED <<gestureVars, shapes, isDirty, lastUndoneShape>>
     ELSE IF currentTool = "brush"
     THEN /\ Len(shapes) < MaxShapes
          /\ commitShape(BrushPath(IF currentPath # None THEN currentPath[1] ELSE <<>>,
                                   strokeColor, strokeWidth))
          /\ currentPath' = None
          /\ isDrawing' = FALSE
          /\ UNCHANGED <<isErasing, isPanning, panLastRef, startPoint,
                         previewEnd, snapPreview>>
     ELSE IF startPoint = None \/ currentTool \notin {"solid", "dashed"}
     THEN UNCHANGED <<gestureVars, shapes, isDirty, lastUndoneShape>>
     ELSE LET endWorld == screenToWorld(pScreen)
              snap == snapToEndpoints(endWorld)
              snappedEnd == IF snap # None THEN snap[1]
                            ELSE snapAxisFromStart(startPoint[1], endWorld)
          IN  /\ Len(shapes) < MaxShapes
              /\ commitShape(Segment(startPoint[1], snappedEnd, currentTool,
                                     strokeColor, strokeWidth))
              /\ isDrawing' = FALSE
              /\ startPoint' = None
              /\ previewEnd' = None
              /\ snapPreview' = None
              /\ UNCHANGED <<isErasing, isPanning, panLastRef, currentPath>>
  /\ UNCHANGED <<currentTool, hoverWorld, styleVars, viewVars, pageVars,
                 mounted, boundVars>>

\* mutant: the pointer leaving the canvas ends the gesture but keeps its state
handleMouseLeaveKeepsGesture ==
  /\ mounted
  /\ IF isPanning
     THEN /\ isPanning' = FALSE
          /\ panLastRef' = None
          /\ UNCHANGED <<isErasing, isDrawing, startPoint, previewEnd,
                         currentPath, snapPreview>>
     ELSE /\ isErasing' = FALSE
          /\ isDrawing' = FALSE
          /\ UNCHANGED <<startPoint, previewEnd, currentPath, snapPreview,
                         isPanning, panLastRef>>
  /\ UNCHANGED <<currentTool, shapes, isDirty, lastUndoneShape, hoverWorld,
                 styleVars, viewVars, pageVars, mounted, boundVars>>

handleMouseLeave ==
  /\ mounted
  /\ IF isPanning
     THEN /\ isPanning' = FALSE
          /\ panLastRef' = None
          /\ UNCHANGED <<isErasing, isDrawing, startPoint, previewEnd,
                         currentPath, snapPreview>>
     ELSE /\ isErasing' = FALSE
          /\ IF ~isDrawing
             THEN UNCHANGED <<isDrawing, startPoint, previewEnd, currentPath,
                              snapPreview>>
             ELSE /\ isDrawing' = FALSE
                  /\ startPoint' = None
                  /\ previewEnd' = None
                  /\ currentPath' = None
                  /\ snapPreview' = None
          /\ UNCHANGED <<isPanning, panLastRef>>
  /\ UNCHANGED <<currentTool, shapes, isDirty, lastUndoneShape, hoverWorld,
                 styleVars, viewVars, pageVars, mounted, boundVars>>

\* mutant: the new scale is not clamped to [0.2, 6]
handleWheelNoClamp(mouseScreen, zoomFactor) ==
  /\ mounted
  /\ wheels < MaxWheel
  /\ wheels' = wheels + 1
  /\ LET oldScale == scale
         newScale == RMul(oldScale, zoomFactor)
         mouseWorld == screenToWorld(mouseScreen)
     IN  IF newScale = oldScale
         THEN UNCHANGED <<scale, offset>>
         ELSE /\ scale' = newScale
              /\ offset' = Pt(RSub(mouseScreen.x, RMul(mouseWorld.x, newScale)),
                              RSub(mouseScreen.y, RMul(mouseWorld.y, newScale)))
  /\ UNCHANGED <<currentTool, shapes, isDirty, lastUndoneShape, hoverWorld,
                 gestureVars, styleVars, pageVars, mounted, pans>>

\* mutant: the scale changes and the offset stays as it was
handleWheelKeepsOffset(mouseScreen, zoomFactor) ==
  /\ mounted
  /\ wheels < MaxWheel
  /\ wheels' = wheels + 1
  /\ LET oldScale == scale
         newScale == RMin(R(6), RMax(<<1, 5>>, RMul(oldScale, zoomFactor)))
     IN  IF newScale = oldScale
         THEN UNCHANGED <<scale, offset>>
         ELSE /\ scale' = newScale
              /\ offset' = offset
  /\ UNCHANGED <<currentTool, shapes, isDirty, lastUndoneShape, hoverWorld,
                 gestureVars, styleVars, pageVars, mounted, pans>>

\* mutant: a wheel event that empties the redo buffer
handleWheelClearsRedo(mouseScreen, zoomFactor) ==
  /\ mounted
  /\ wheels < MaxWheel
  /\ wheels' = wheels + 1
  /\ LET oldScale == scale
         newScale == RMin(R(6), RMax(<<1, 5>>, RMul(oldScale, zoomFactor)))
         mouseWorld == screenToWorld(mouseScreen)
     IN  IF newScale = oldScale
         THEN UNCHANGED <<scale, offset>>
         ELSE /\ scale' = newScale
              /\ offset' = Pt(RSub(mouseScreen.x, RMul(mouseWorld.x, newScale)),
                              RSub(mouseScreen.y, RMul(mouseWorld.y, newScale)))
  /\ lastUndoneShape' = None
  /\ UNCHANGED <<currentTool, shapes, isDirty, hoverWorld,
                 gestureVars, styleVars, pageVars, mounted, pans>>

\* zoomFactor is Math.exp(-evt.deltaY * 0.001)
handleWheel(mouseScreen, zoomFactor) ==
  /\ mounted
  /\ wheels < MaxWheel
  /\ wheels' = wheels + 1
  /\ LET oldScale == scale
         newScale == RMin(R(6), RMax(<<1, 5>>, RMul(oldScale, zoomFactor)))
         mouseWorld == screenToWorld(mouseScreen)
     IN  IF newScale = oldScale
         THEN UNCHANGED <<scale, offset>>
         ELSE /\ scale' = newScale
              /\ offset' = Pt(RSub(mouseScreen.x, RMul(mouseWorld.x, newScale)),
                              RSub(mouseScreen.y, RMul(mouseWorld.y, newScale)))
  /\ UNCHANGED <<currentTool, shapes, isDirty, lastUndoneShape, hoverWorld,
                 gestureVars, styleVars, pageVars, mounted, pans>>

(***************************************************************************)
(* Undo, redo, clear.                                                      *)
(***************************************************************************)
\* mutant: undo that forgets to mark the page dirty
undoNoDirty ==
  /\ mounted
  /\ IF Len(shapes) = 0
     THEN UNCHANGED <<shapes, lastUndoneShape, isDirty>>
     ELSE /\ lastUndoneShape' = Some(shapes[Len(shapes)])
          /\ isDirty' = isDirty
          /\ shapes' = SubSeq(shapes, 1, Len(shapes) - 1)
  /\ UNCHANGED <<currentTool, hoverWorld, gestureVars, styleVars, viewVars,
                 pageVars, mounted, boundVars>>

\* the undo button and Ctrl+Z
undo ==
  /\ mounted
  /\ IF Len(shapes) = 0
     THEN UNCHANGED <<shapes, lastUndoneShape, isDirty>>
     ELSE /\ lastUndoneShape' = Some(shapes[Len(shapes)])
          /\ isDirty' = TRUE
          /\ shapes' = SubSeq(shapes, 1, Len(shapes) - 1)
  /\ UNCHANGED <<currentTool, hoverWorld, gestureVars, styleVars, viewVars,
                 pageVars, mounted, boundVars>>

\* mutant: redo that keeps the buffer filled
redoKeepsBuffer ==
  /\ mounted
  /\ IF lastUndoneShape = None
     THEN UNCHANGED <<shapes, lastUndoneShape, isDirty>>
     ELSE /\ Len(shapes) < MaxShapes
          /\ shapes' = Append(shapes, lastUndoneShape[1])
          /\ lastUndoneShape' = lastUndoneShape
          /\ isDirty' = TRUE
  /\ UNCHANGED <<currentTool, hoverWorld, gestureVars, styleVars, viewVars,
                 pageVars, mounted, boundVars>>

\* the redo button and Ctrl+Y
redo ==
  /\ mounted
  /\ IF lastUndoneShape = None
     THEN UNCHANGED <<shapes, lastUndoneShape, isDirty>>
     ELSE /\ Len(shapes) < MaxShapes
          /\ shapes' = Append(shapes, lastUndoneShape[1])
          /\ lastUndoneShape' = None
          /\ isDirty' = TRUE
  /\ UNCHANGED <<currentTool, hoverWorld, gestureVars, styleVars, viewVars,
                 pageVars, mounted, boundVars>>

clearAll ==
  /\ mounted
  /\ shapes' = <<>>
  /\ isDirty' = TRUE
  /\ lastUndoneShape' = None
  /\ UNCHANGED <<currentTool, hoverWorld, gestureVars, styleVars, viewVars,
                 pageVars, mounted, boundVars>>

(***************************************************************************)
(* Keyboard handler onKey.                                                 *)
(***************************************************************************)
\* mutant: Escape hides the preview and leaves the gesture in progress
onKeyEscapeHidesPreview ==
  /\ mounted
  /\ previewEnd' = None
  /\ UNCHANGED <<currentTool, shapes, isDirty, lastUndoneShape, hoverWorld,
                 isDrawing, startPoint, currentPath, snapPreview, isPanning,
                 panLastRef, isErasing, styleVars, viewVars, pageVars, mounted,
                 boundVars>>

onKeyEscape ==
  /\ mounted
  /\ isDrawing' = FALSE
  /\ startPoint' = None
  /\ previewEnd' = None
  /\ UNCHANGED <<currentTool, shapes, isDirty, lastUndoneShape, hoverWorld,
                 currentPath, snapPreview, isPanning, panLastRef, isErasing,
                 styleVars, viewVars, pageVars, mounted, boundVars>>

\* Ctrl+Z without Shift passes the first test alone and is undo; Ctrl+Y
\* passes the second test alone and is redo.
\* Ctrl+Shift+Z passes both tests: undo() and then redo() run in the same
\* handler, redo() reading lastUndoneShape of the render before the key.  The
\* updater of undo's setShapes calls setLastUndoneShape(removed); it runs
\* either at once (eager) or in the next render, that is before or after
\* redo's setLastUndoneShape(null).
onKeyCtrlShiftZ(eager) ==
  /\ mounted
  /\ LET n == Len(shapes)
         afterUndo == IF n = 0 THEN shapes ELSE SubSeq(shapes, 1, n - 1)
     IN  IF lastUndoneShape = None
         THEN /\ shapes' = afterUndo
              /\ lastUndoneShape' = IF n = 0 THEN None ELSE Some(shapes[n])
              /\ isDirty' = (isDirty \/ n > 0)
         ELSE /\ Len(afterUndo) < MaxShapes
              /\ shapes' = Append(afterUndo, lastUndoneShape[1])
              /\ lastUndoneShape' = IF n = 0 \/ eager THEN None
                                    ELSE Some(shapes[n])
              /\ isDirty' = TRUE
  /\ UNCHANGED <<currentTool, hoverWorld, gestureVars, styleVars, viewVars,
                 pageVars, mounted, boundVars>>

(***************************************************************************)
(* Toolbar.                                                                *)
(***************************************************************************)
\* the four tool buttons: setCurrentTool(s => s === t ? null : t)
toggleTool(t) ==
  /\ mounted
  /\ currentTool' = IF currentTool = t THEN NoTool ELSE t
  /\ UNCHANGED <<shapes, isDirty, lastUndoneShape, hoverWorld, gestureVars,
                 styleVars, viewVars, pageVars, mounted, boundVars>>

setStrokeColor(c) ==
  /\ mounted
  /\ strokeColor' = c
  /\ UNCHANGED <<currentTool, shapes, isDirty, lastUndoneShape, hoverWorld,
                 gestureVars, strokeWidth, eraserSizePx, viewVars, pageVars,
                 mounted, boundVars>>

setStrokeWidth(w) ==
  /\ mounted
  /\ strokeWidth' = w
  /\ UNCHANGED <<currentTool, shapes, isDirty, lastUndoneShape, hoverWorld,
                 gestureVars, strokeColor, eraserSizePx, viewVars, pageVars,
                 mounted, boundVars>>

setEraserSizePx(e) ==
  /\ mounted
  /\ eraserSizePx' = e
  /\ UNCHANGED <<currentTool, shapes, isDirty, lastUndoneShape, hoverWorld,
                 gestureVars, strokeColor, strokeWidth, viewVars, pageVars,
                 mounted, boundVars>>

(***************************************************************************)
(* Pages and localStorage.                                                 *)
(***************************************************************************)
\* a GeometryPageData; scale and offset are optional (<<>> when absent).
\* createdAt and updatedAt are written and never read: they are left out.
Page(id, name, shps, sc, off) ==
  [id |-> id, name |-> name, shapes |-> shps, scale |-> sc, offset |-> off]

Origin == IPt(0, 0)

FreshPage(id, name) == Page(id, name, <<>>, Some(R(1)), Some(Origin))

\* the text JSON.stringify gives for a page list, and JSON.parse of a text
JSONstringify(ps) == [kind |-> "array", items |-> ps]
JSONparse(text) == text.items

PageIds(ps) == {ps[i].id : i \in 1..Len(ps)}
\* ps.find(p => p.id === id), for an id of the list
FindPage(ps, id) ==
  ps[CHOOSE i \in 1..Len(ps) : ps[i].id = id /\ \A j \in 1..(i - 1) : ps[j].id # id]

StoredIds ==
  IF storage.pages # None /\ storage.pages[1].kind = "array"
  THEN PageIds(storage.pages[1].items) ELSE {}

\* generateId(): an id no page in memory or in storage carries
generateId ==
  LET used == PageIds(pages) \cup StoredIds
             \cup {currentPageId[i] : i \in 1..Len(currentPageId)}
             \cup {storage.current[i] : i \in 1..Len(storage.current)}
  IN  CHOOSE n \in 1..(Cardinality(used) + 1) : n \notin used

savePagesToStorage(nextPages, nextCurrentId) ==
  [pages |-> Some(JSONstringify(nextPages)),
   current |-> IF nextCurrentId # None THEN nextCurrentId ELSE storage.current]

\* the mount effect: load pages
LoadPages ==
  /\ ~mounted
  /\ mounted' = TRUE
  /\ IF storage.pages # None /\ storage.pages[1].kind = "unparseable"
     THEN \* JSON.parse throws, the catch block is empty
          UNCHANGED <<pages, currentPageId, shapes, scale, offset, isDirty>>
     ELSE LET parsed == IF storage.pages # None /\ storage.pages[1].kind = "array"
                        THEN JSONparse(storage.pages[1]) ELSE <<>>
              loaded == IF Len(parsed) = 0
                        THEN <<FreshPage(generateId, "Trang 1")>>
                        ELSE parsed
              cur == storage.current
              chosen == IF cur # None /\ cur[1] \in PageIds(loaded)
                        THEN cur[1] ELSE loaded[1].id
              page == FindPage(loaded, chosen)
          IN  /\ pages' = loaded
              /\ currentPageId' = Some(chosen)
              /\ shapes' = page.shapes
              /\ scale' = IF page.scale # None /\ page.scale[1] # R(0)
                          THEN page.scale[1] ELSE scale
              /\ offset' = IF page.offset # None THEN page.offset[1] ELSE offset
              /\ isDirty' = FALSE
  /\ UNCHANGED <<currentTool, lastUndoneShape, hoverWorld, gestureVars,
                 styleVars, storage, boundVars>>

\* prev.map(...) of commitSave
SavedPages ==
  [i \in 1..Len(pages) |->
     IF Some(pages[i].id) = currentPageId
     THEN [pages[i] EXCEPT !.shapes = shapes, !.scale = Some(scale),
                           !.offset = Some(offset)]
     ELSE pages[i]]

commitSave ==
  /\ mounted
  /\ IF currentPageId = None
     THEN UNCHANGED <<pages, storage, isDirty>>
     ELSE /\ pages' = SavedPages
          /\ storage' = savePagesToStorage(SavedPages, currentPageId)
          /\ isDirty' = FALSE
  /\ UNCHANGED <<currentTool, shapes, lastUndoneShape, hoverWorld, gestureVars,
                 styleVars, viewVars, currentPageId, mounted, boundVars>>

\* name is the trimmed, non-empty answer of prompt()
createNewPage(name) ==
  /\ mounted
  /\ Len(pages) < MaxPages
  /\ LET id == generateId
         nextPages == <<FreshPage(id, name)>> \o pages
     IN  /\ pages' = nextPages
         /\ currentPageId' = Some(id)
         /\ storage' = savePagesToStorage(nextPages, Some(id))
  /\ shapes' = <<>>
  /\ scale' = R(1)
  /\ offset' = Origin
  /\ isDirty' = FALSE
  /\ UNCHANGED <<currentTool, lastUndoneShape, hoverWorld, gestureVars,
                 styleVars, mounted, boundVars>>

saveAsNewPage(name) ==
  /\ mounted
  /\ Len(pages) < MaxPages
  /\ IF currentPageId = None \/ currentPageId[1] \notin PageIds(pages)
     THEN UNCHANGED <<pages, currentPageId, storage, isDirty>>
     ELSE LET id == generateId
              clone == Page(id, name, shapes, Some(scale), Some(offset))
              nextPages == <<clone>> \o pages
          IN  /\ pages' = nextPages
              /\ currentPageId' = Some(id)
              /\ isDirty' = FALSE
              /\ storage' = savePagesToStorage(nextPages, Some(id))
  /\ UNCHANGED <<currentTool, shapes, lastUndoneShape, hoverWorld, gestureVars,
                 styleVars, viewVars, mounted, boundVars>>

renameCurrentPage(name) ==
  /\ mounted
  /\ IF currentPageId = None \/ currentPageId[1] \notin PageIds(pages)
     THEN UNCHANGED <<pages, storage>>
     ELSE LET next == [i \in 1..Len(pages) |->
                         IF pages[i].id = currentPageId[1]
                         THEN [pages[i] EXCEPT !.name = name] ELSE pages[i]]
          IN  /\ pages' = next
              /\ storage' = savePagesToStorage(next, currentPageId)
  /\ UNCHANGED <<currentTool, shapes, isDirty, lastUndoneShape, hoverWorld,
                 gestureVars, styleVars, viewVars, currentPageId, mounted,
                 boundVars>>

\* mutant: an activated page is shown at the scale 1
ScaleAlways1(page) == R(1)

\* page.scale || 1 and page.offset || {x: 0, y: 0}
ScaleOr1(page) ==
  IF page.scale # None /\ page.scale[1] # R(0) THEN page.scale[1] ELSE R(1)
OffsetOrOrigin(page) ==
  IF page.offset # None THEN page.offset[1] ELSE Origin

\* mutant: deleting the only page leaves no page
deleteCurrentPageNoFresh ==
  /\ mounted
  /\ IF currentPageId = None
     THEN UNCHANGED <<pages, currentPageId, shapes, scale, offset, isDirty,
                      storage>>
     ELSE LET remain == SelectSeq(pages, LAMBDA p : p.id # currentPageId[1])
          IN  IF Len(remain) = 0
              THEN /\ pages' = <<>>
                   /\ currentPageId' = None
                   /\ shapes' = <<>>
                   /\ scale' = R(1)
                   /\ offset' = Origin
                   /\ isDirty' = FALSE
                   /\ storage' = savePagesToStorage(<<>>, None)
              ELSE /\ pages' = remain
                   /\ currentPageId' = Some(remain[1].id)
                   /\ shapes' = remain[1].shapes
                   /\ scale' = ScaleOr1(remain[1])
                   /\ offset' = OffsetOrOrigin(remain[1])
                   /\ isDirty' = FALSE
                   /\ storage' = savePagesToStorage(remain, Some(remain[1].id))
  /\ UNCHANGED <<currentTool, lastUndoneShape, hoverWorld, gestureVars,
                 styleVars, mounted, boundVars>>

\* the user answers the confirm() with OK
deleteCurrentPage ==
  /\ mounted
  /\ IF currentPageId = None
     THEN UNCHANGED <<pages, currentPageId, shapes, scale, offset, isDirty,
                      storage>>
     ELSE LET remain == SelectSeq(pages, LAMBDA p : p.id # currentPageId[1])
          IN  IF Len(remain) = 0
              THEN LET id == generateId
                       fresh == FreshPage(id, "Trang 1")
                   IN  /\ pages' = <<fresh>>
                       /\ currentPageId' = Some(id)
                       /\ shapes' = <<>>
                       /\ scale' = R(1)
                       /\ offset' = Origin
                       /\ isDirty' = FALSE
                       /\ storage' = savePagesToStorage(<<fresh>>, Some(id))
              ELSE /\ pages' = remain
                   /\ currentPageId' = Some(remain[1].id)
                   /\ shapes' = remain[1].shapes
                   /\ scale' = ScaleOr1(remain[1])
                   /\ offset' = OffsetOrOrigin(remain[1])
                   /\ isDirty' = FALSE
                   /\ storage' = savePagesToStorage(remain, Some(remain[1].id))
  /\ UNCHANGED <<currentTool, lastUndoneShape, hoverWorld, gestureVars,
                 styleVars, mounted, boundVars>>

\* id is the value of the chosen <option>; ok the answer to the confirm();
\* eager tells whether the updater of commitSave's setPages runs at once or in
\* the next render, that is before or after the handler's own
\* savePagesToStorage(pages, id)
changeCurrentPage(id, ok, eager) ==
  /\ mounted
  /\ id \in PageIds(pages)
  /\ Some(id) # currentPageId
  /\ LET page == FindPage(pages, id)
         saves == isDirty /\ currentPageId # None /\ ok
     IN  /\ pages' = IF saves THEN SavedPages ELSE pages
         /\ storage' = IF saves /\ ~eager
                       THEN savePagesToStorage(SavedPages, currentPageId)
                       ELSE savePagesToStorage(pages, Some(id))
         /\ currentPageId' = Some(id)
         /\ shapes' = page.shapes
         /\ scale' = ScaleOr1(page)
         /\ offset' = OffsetOrOrigin(page)
         /\ isDirty' = FALSE
  /\ UNCHANGED <<currentTool, lastUndoneShape, hoverWorld, gestureVars,
                 styleVars, mounted, boundVars>>

(***************************************************************************)
(* The state after construction, and the next-state relation.              *)
(***************************************************************************)
\* what localStorage may hold when the component mounts: nothing, a text
\* that is no JSON, or the pages a previous session saved
SavedSession ==
  [pages |-> Some(JSONstringify(
               <<Page(1, "Trang 1",
                      <<Segment(IPt(0, 0), IPt(10, 0), "solid", "#111827", 2)>>,
                      Some(R(6)), Some(Origin))>>)),
   current |-> Some(1)]

InitStorages ==
  {[pages |-> None, current |-> None],
   [pages |-> Some([kind |-> "unparseable"]), current |-> None],
   SavedSession}

\* the useState / useRef initial values, with localStorage holding st
InitWith(st) ==
  /\ currentTool = "solid"
  /\ shapes = <<>>
  /\ isDrawing = FALSE
  /\ startPoint = None
  /\ previewEnd = None
  /\ strokeColor = "#111827"
  /\ strokeWidth = 2
  /\ currentPath = None
  /\ snapPreview = None
  /\ hoverWorld = None
  /\ scale = R(1)
  /\ offset = Origin
  /\ isPanning = FALSE
  /\ panLastRef = None
  /\ isErasing = FALSE
  /\ eraserSizePx = 18
  /\ lastUndoneShape = None
  /\ pages = <<>>
  /\ currentPageId = None
  /\ isDirty = FALSE
  /\ storage = st
  /\ mounted = FALSE
  /\ wheels = 0
  /\ pans = 0

Init == \E st \in InitStorages : InitWith(st)

Next ==
  \/ LoadPages
  \/ \E p \in ScreenPts : handleMouseDown(p)
  \/ \E p \in ScreenPts : handleMouseMove(p)
  \/ \E p \in ScreenPts : handleMouseUp(p)
  \/ handleMouseLeave
  \/ \E p \in ScreenPts, z \in ZoomFactors : handleWheel(p, z)
  \/ undo
  \/ redo
  \/ clearAll
  \/ onKeyEscape
  \/ \E eager \in BOOLEAN : onKeyCtrlShiftZ(eager)
  \/ \E t \in Tools : toggleTool(t)
  \/ \E c \in Colors : setStrokeColor(c)
  \/ \E w \in Widths : setStrokeWidth(w)
  \/ \E e \in EraserSizes : setEraserSizePx(e)
  \/ commitSave
  \/ \E n \in PageNames : createNewPage(n)
  \/ \E n \in PageNames : saveAsNewPage(n)
  \/ \E n \in PageNames : renameCurrentPage(n)
  \/ deleteCurrentPage
  \/ \E id \in PageIds(pages), ok \in BOOLEAN, eager \in BOOLEAN :
       changeCurrentPage(id, ok, eager)

Spec == Init /\ [][Next]_vars

(***************************************************************************)
(* Sub-specifications.  Each keeps the handlers as they are and restricts  *)
(* the environment: which events occur, and with which inputs.             *)
(***************************************************************************)
FirstRun == [pages |-> None, current |-> None]

\* Editing one page at the initial view: drawing, erasing, undo and redo.
\* The tool is changed between gestures only, the pointer is not moved while
\* panning and a brush stroke is a click without movement.
EditPts == {IPt(0, 0), IPt(20, 5)}
EditTools == {"solid", "brush", "eraser"}
Idle == ~isDrawing /\ ~isPanning /\ ~isErasing

EditNext ==
  \/ LoadPages
  \/ \E p \in EditPts : handleMouseDown(p)
  \/ \E p \in EditPts :
       ~isPanning /\ ~(isDrawing /\ currentTool = "brush") /\ handleMouseMove(p)
  \/ \E p \in EditPts : handleMouseUp(p)
  \/ handleMouseLeave
  \/ undo
  \/ redo
  \/ clearAll
  \/ onKeyEscape
  \/ \E eager \in BOOLEAN : onKeyCtrlShiftZ(eager)
  \/ \E t \in EditTools : Idle /\ toggleTool(t)

\* the page a previous session drew one segment on, and saved
EditSession ==
  [pages |-> Some(JSONstringify(
               <<Page(1, "Trang 1",
                      <<Segment(IPt(0, 0), IPt(20, 5), "solid", "#111827", 2)>>,
                      Some(R(1)), Some(Origin))>>)),
   current |-> Some(1)]

SpecEdit == InitWith(EditSession) /\ [][EditNext]_vars

\* Erasing on a page that a previous session saved: the eraser tool, its size
\* menu, erase gestures, undo and redo; nothing is drawn.
ErasePts == {IPt(50, 0), IPt(50, 50), IPt(50, 18), IPt(120, 0), IPt(110, 60),
             IPt(30, 40)}
EraseSizes == {10, 18}
EraseScales == {R(1), R(2)}

Ink(s) == IF s.type = "segment"
          THEN Segment(s.start, s.end, "solid", "#111827", 2)
          ELSE BrushPath(s.points, "#111827", 2)

EraseStores ==
  { <<[type |-> "segment", start |-> IPt(0, 0), end |-> IPt(100, 0)],
      [type |-> "path", points |-> <<IPt(20, 100), IPt(100, 100), IPt(100, 20)>>]>>,
    <<[type |-> "segment", start |-> IPt(30, 40), end |-> IPt(30, 40)],
      [type |-> "path", points |-> <<IPt(50, 50)>>]>>,
    <<[type |-> "path", points |-> <<>>],
      [type |-> "segment", start |-> IPt(0, 0), end |-> IPt(40, 30)]>>,
    <<[type |-> "segment", start |-> IPt(0, 0), end |-> IPt(100, 0)],
      [type |-> "path", points |-> <<IPt(50, 10), IPt(50, 90)>>]>>,
    <<[type |-> "segment", start |-> IPt(0, 0), end |-> IPt(100, 0)],
      [type |-> "segment", start |-> IPt(0, 50), end |-> IPt(100, 50)]>> }

EraseSessions ==
  { [pages |-> Some(JSONstringify(
                 <<Page(1, "Trang 1", <<Ink(st[1]), Ink(st[2])>>,
                        Some(sc), Some(Origin))>>)),
     current |-> Some(1)] : st \in EraseStores, sc \in EraseScales }

EraseNext ==
  \/ LoadPages
  \/ Idle /\ toggleTool("eraser")
  \/ \E p \in ErasePts : currentTool = "eraser" /\ handleMouseDown(p)
  \/ \E p \in ErasePts : currentTool = "eraser" /\ handleMouseMove(p)
  \/ \E p \in ErasePts : currentTool = "eraser" /\ handleMouseUp(p)
  \/ handleMouseLeave
  \/ \E e \in EraseSizes : setEraserSizePx(e)
  \/ undo
  \/ redo

SpecErase == (\E st \in EraseSessions : InitWith(st)) /\ [][EraseNext]_vars

\* Zooming and panning one page: wheel events, and drags of the canvas with
\* no tool selected; nothing is drawn, erased or saved.  The session starts
\* with no saved pages, or with the page a previous session saved at the
\* largest scale.
ViewPts == {IPt(20, 5), IPt(40, 40)}

ZoomNext ==
  \/ LoadPages
  \/ \E p \in ViewPts, z \in ZoomFactors : handleWheel(p, z)
  \/ Idle /\ toggleTool("solid")
  \/ \E p \in ViewPts : currentTool = NoTool /\ handleMouseDown(p)
  \/ \E p \in ViewPts : isPanning /\ handleMouseMove(p)
  \/ \E p \in ViewPts : isPanning /\ handleMouseUp(p)
  \/ handleMouseLeave

SpecZoom == (\E st \in {FirstRun, SavedSession} : InitWith(st)) /\ [][ZoomNext]_vars

\* Zooming and the page operations (save, new page, delete, switch): the
\* wheel turns at one place, nothing is drawn, erased or panned.
WheelAt == IPt(20, 5)
ViewNames == {"Trang 2"}

ViewNext ==
  \/ LoadPages
  \/ \E z \in ZoomFactors : handleWheel(WheelAt, z)
  \/ commitSave
  \/ \E n \in ViewNames : createNewPage(n)
  \/ deleteCurrentPage
  \/ \E id \in PageIds(pages), ok \in BOOLEAN, eager \in BOOLEAN :
       changeCurrentPage(id, ok, eager)

SpecView == (\E st \in {FirstRun, SavedSession} : InitWith(st)) /\ [][ViewNext]_vars

\* Starting and previewing segments on a page that a previous session
\* saved: the solid and dashed tools chosen between gestures, pointer-down
\* and moves; the pointer is not released on the canvas, a gesture ends by
\* pointer-leave or Escape, and nothing is erased, undone or saved.
DrawPts == {IPt(0, 0), IPt(100, 6), IPt(6, 100), IPt(100, 47)}
DrawTools == {"solid", "dashed"}

\* the saved page: its shapes and its scale
PathB == [type |-> "path", points |-> <<IPt(8, 0), IPt(50, 50), IPt(3, 4)>>]
DrawPages ==
  { <<<<[type |-> "segment", start |-> IPt(0, 0), end |-> IPt(100, 0)]>>, R(1)>>,
    <<<<PathB>>, R(1)>>,
    <<<<PathB>>, R(2)>>,
    <<<<[type |-> "path", points |-> <<>>]>>, R(1)>>,
    <<<<PathB, [type |-> "segment", start |-> IPt(100, 47), end |-> IPt(-3, 0)]>>,
      R(1)>> }

DrawSession(store, sc) ==
  [pages |-> Some(JSONstringify(
               <<Page(1, "Trang 1", [i \in 1..Len(store) |-> Ink(store[i])],
                      Some(sc), Some(Origin))>>)),
   current |-> Some(1)]
DrawSessions == {DrawSession(pg[1], pg[2]) : pg \in DrawPages}

DrawNext ==
  \/ LoadPages
  \/ \E t \in DrawTools : Idle /\ toggleTool(t)
  \/ \E p \in DrawPts : currentTool \in DrawTools /\ handleMouseDown(p)
  \/ \E p \in DrawPts : currentTool \in DrawTools /\ handleMouseMove(p)
  \/ handleMouseLeave
  \/ onKeyEscape

SpecDraw == (\E st \in DrawSessions : InitWith(st)) /\ [][DrawNext]_vars

\* Drawing solid segments between three places on the page with the saved
\* path: pointer-down, moves, pointer-up and pointer-leave.
ReleasePts == {IPt(0, 0), IPt(100, 6), IPt(6, 100)}

ReleaseNext ==
  \/ LoadPages
  \/ \E p \in ReleasePts : handleMouseDown(p)
  \/ \E p \in ReleasePts : handleMouseMove(p)
  \/ \E p \in ReleasePts : handleMouseUp(p)
  \/ handleMouseLeave

SpecRelease == InitWith(DrawSession(<<PathB>>, R(1))) /\ [][ReleaseNext]_vars

\* Segment gestures on a page with one saved segment: completed, left by the
\* pointer or interrupted by Escape, with the last shape undone between them.
\* Dashed segments are started on the emptied page only, and the colour input
\* is used once, during a gesture on the emptied page.
GesturePts == {IPt(0, 0), IPt(20, 5)}
GestureTools == {"solid", "dashed"}
GestureColor == "#ef4444"

GestureNext ==
  \/ LoadPages
  \/ \E t \in GestureTools : Idle /\ toggleTool(t)
  \/ \E p \in GesturePts :
       /\ currentTool = "solid" \/ (currentTool = "dashed" /\ shapes = <<>>)
       /\ handleMouseDown(p)
  \/ \E p \in GesturePts : currentTool \in GestureTools /\ handleMouseMove(p)
  \/ \E p \in GesturePts : currentTool \in GestureTools /\ handleMouseUp(p)
  \/ handleMouseLeave
  \/ onKeyEscape
  \/ undo
  \/ /\ isDrawing /\ shapes = <<>> /\ strokeColor # GestureColor
     /\ setStrokeColor(GestureColor)

SpecGesture == InitWith(EditSession) /\ [][GestureNext]_vars

\* Brush strokes of up to MaxPath points on a page with one saved segment.
\* A stroke is started on the emptied page only, so that the redo buffer
\* holds the shape undone before it.
BrushPts == {IPt(0, 0), IPt(20, 5)}

BrushNext ==
  \/ LoadPages
  \/ Idle /\ toggleTool("brush")
  \/ \E p \in BrushPts :
       currentTool = "brush" /\ shapes = <<>> /\ handleMouseDown(p)
  \/ \E p \in BrushPts : currentTool = "brush" /\ handleMouseMove(p)
  \/ \E p \in BrushPts : currentTool = "brush" /\ handleMouseUp(p)
  \/ handleMouseLeave
  \/ onKeyEscape
  \/ undo

SpecBrush == InitWith(EditSession) /\ [][BrushNext]_vars

\* The page operations, on a first run and on a saved session, with the view
\* zoomed between them.  New pages and copies are named "Trang 2" and a
\* page is renamed to "Trang 3", so that "Trang 1" names the pages the
\* program itself makes.
NewNames == {"Trang 2"}
Renames == {"Trang 3"}

PagesNext ==
  \/ LoadPages
  \/ \E z \in ZoomFactors : handleWheel(WheelAt, z)
  \/ commitSave
  \/ \E n \in NewNames : createNewPage(n)
  \/ \E n \in NewNames : saveAsNewPage(n)
  \/ \E n \in Renames : renameCurrentPage(n)
  \/ deleteCurrentPage
  \/ \E id \in PageIds(pages), ok \in BOOLEAN, eager \in BOOLEAN :
       changeCurrentPage(id, ok, eager)

SpecPages == (\E st \in {FirstRun, SavedSession} : InitWith(st)) /\ [][PagesNext]_vars

\* The values a session can find under the two storage keys: none, text
\* that is not JSON, JSON that is not an array, an empty array, a saved
\* session, and a current id that names no stored page.
LoadStorages ==
  InitStorages \cup
  { [pages |-> Some([kind |-> "value"]), current |-> None],
    [pages |-> Some(JSONstringify(<<>>)), current |-> Some(1)],
    [pages |-> None, current |-> Some(1)],
    [pages |-> SavedSession.pages, current |-> Some(2)] }

SpecLoad == (\E st \in LoadStorages : InitWith(st)) /\ [][ViewNext]_vars

\* Keeping two pages: the page a previous session saved at scale 6 is drawn on,
\* saved, left and visited again; a second page is created while there is
\* one page only, drawn on and deleted.  Segments are clicks at one place; the
\* view is not changed.
RoundPt == IPt(40, 40)

RoundNext ==
  \/ LoadPages
  \/ currentTool = "solid" /\ handleMouseDown(RoundPt)
  \/ currentTool = "solid" /\ handleMouseUp(RoundPt)
  \/ commitSave
  \/ \E n \in NewNames : Len(pages) = 1 /\ createNewPage(n)
  \/ deleteCurrentPage
  \/ \E id \in PageIds(pages), ok \in BOOLEAN, eager \in BOOLEAN :
       changeCurrentPage(id, ok, eager)

SpecRound == InitWith(SavedSession) /\ [][RoundNext]_vars

\* Changing the tool at any moment, a gesture in progress included (the tool
\* buttons are reachable from the keyboard while a pointer button is held):
\* the tool buttons, pointer events at one place, and Escape.
ToolPts == {IPt(20, 5)}
ToolButtons == {"solid", "brush", "eraser"}

ToolsNext ==
  \/ LoadPages
  \/ \E t \in ToolButtons : toggleTool(t)
  \/ \E p \in ToolPts : handleMouseDown(p)
  \/ \E p \in ToolPts : handleMouseMove(p)
  \/ \E p \in ToolPts : handleMouseUp(p)
  \/ handleMouseLeave
  \/ onKeyEscape

SpecTools == InitWith(FirstRun) /\ [][ToolsNext]_vars

\* Moving the view over a page with history: undo and redo of the saved
\* segment, wheel events, and drags of the canvas after the solid tool has
\* been deselected.  The session starts at scale 1 or at the largest scale.
FramePts == {IPt(20, 5), IPt(40, 40), IPt(0, 60)}

FrameNext ==
  \/ LoadPages
  \/ undo
  \/ redo
  \/ Idle /\ currentTool = "solid" /\ toggleTool("solid")
  \/ \E z \in ZoomFactors : handleWheel(WheelAt, z)
  \/ \E p \in FramePts : currentTool = NoTool /\ handleMouseDown(p)
  \/ \E p \in FramePts : isPanning /\ handleMouseMove(p)
  \/ \E p \in FramePts : isPanning /\ handleMouseUp(p)
  \/ handleMouseLeave

SpecFrame == (\E st \in {EditSession, SavedSession} : InitWith(st)) /\ [][FrameNext]_vars

\* Undo and redo on several pages: the saved segment is undone and redone,
\* and pages are created, switched and deleted; nothing is drawn and no page
\* is saved except by the question asked when a dirty page is left.
HistoryNext ==
  \/ LoadPages
  \/ undo
  \/ redo
  \/ \E n \in NewNames : createNewPage(n)
  \/ deleteCurrentPage
  \/ \E id \in PageIds(pages), ok \in BOOLEAN, eager \in BOOLEAN :
       changeCurrentPage(id, ok, eager)

SpecHistory == InitWith(SavedSession) /\ [][HistoryNext]_vars

(***************************************************************************)
(* Steps named by the claims.                                              *)
(***************************************************************************)
Front(s) == SubSeq(s, 1, Len(s) - 1)
Last(s) == s[Len(s)]

\* a pointer-down or pointer-move that calls eraseAt at the world image of p
EraseStep(p) ==
  \/ currentTool = "eraser" /\ handleMouseDown(p)
  \/ ~isPanning /\ isErasing /\ currentTool = "eraser" /\ handleMouseMove(p)

\* a pointer-up that completes a segment or brush gesture
CommitStep(p) ==
  /\ ~isErasing /\ ~isPanning /\ isDrawing
  /\ currentTool = "brush" \/ (startPoint # None /\ currentTool \in {"solid", "dashed"})
  /\ handleMouseUp(p)

\* a pointer-down that starts a segment gesture
SegmentDown(p) == currentTool \in {"solid", "dashed"} /\ handleMouseDown(p)

\* a pointer-move and a pointer-up of a segment gesture in progress
SegmentMove(p) ==
  /\ ~isPanning /\ isDrawing /\ currentTool \in {"solid", "dashed"}
  /\ handleMouseMove(p)
SegmentUp(p) ==
  /\ ~isErasing /\ ~isPanning /\ isDrawing /\ startPoint # None
  /\ currentTool \in {"solid", "dashed"}
  /\ handleMouseUp(p)

\* the pointer events of a brush gesture
BrushDown(p) == currentTool = "brush" /\ handleMouseDown(p)
BrushMove(p) ==
  ~isPanning /\ isDrawing /\ currentTool = "brush" /\ handleMouseMove(p)
BrushUp(p) ==
  /\ ~isErasing /\ ~isPanning /\ isDrawing /\ currentTool = "brush"
  /\ handleMouseUp(p)

\* the pointer leaves the canvas during a segment or brush gesture
LeaveInGesture ==
  /\ ~isPanning /\ isDrawing /\ currentTool \in {"solid", "dashed", "brush"}
  /\ handleMouseLeave

\* Escape is pressed during a segment gesture
EscapeInGesture ==
  /\ ~isPanning /\ isDrawing /\ currentTool \in {"solid", "dashed"}
  /\ onKeyEscape

\* the steps of a pan gesture, and a pointer-leave that ends it
PanDown(p) == currentTool = NoTool /\ handleMouseDown(p)
PanMove(p) == isPanning /\ handleMouseMove(p)
PanUp(p) == isPanning /\ handleMouseUp(p)
LeaveInPan == isPanning /\ handleMouseLeave

\* create, save-as, rename, switch and delete
PageOp ==
  \/ \E n \in NewNames : createNewPage(n) \/ saveAsNewPage(n)
  \/ \E n \in Renames : renameCurrentPage(n)
  \/ deleteCurrentPage
  \/ \E id \in PageIds(pages), ok \in BOOLEAN, eager \in BOOLEAN :
       changeCurrentPage(id, ok, eager)

(***************************************************************************)
(* C1..C4: the single-slot redo buffer.                                    *)
(***************************************************************************)
\* C1: undo on a store S' + [B] leaves S', puts B into the redo buffer and
\* sets dirty, so that store + buffer still make up the store before the
\* undo; a redo with the buffer holding B appends B at the end and empties
\* the buffer.  An undo followed at once by a redo therefore restores the
\* store, in the same order.
C1_UndoRedoRoundTrip ==
  [][ /\ (undo /\ shapes # <<>>) =>
            /\ shapes' = Front(shapes)
            /\ lastUndoneShape' = Some(Last(shapes))
            /\ shapes' \o lastUndoneShape' = shapes
            /\ isDirty'
      /\ (redo /\ lastUndoneShape # None) =>
            /\ shapes' = shapes \o lastUndoneShape
            /\ Front(shapes') = shapes
            /\ lastUndoneShape' = None
    ]_vars

\* a store of one shape with the other one in the redo buffer: after an undo
C1_Witness ==
  /\ Len(shapes) = 1 /\ lastUndoneShape # None /\ isDirty
  /\ lastUndoneShape[1] # shapes[1]
  /\ pages # <<>> /\ pages[1].shapes = shapes

\* C2: a pointer-up that commits a shape empties the redo buffer, also when
\* an undo filled it before, and a redo with the empty buffer leaves the
\* store as it is.
C2_CommitInvalidatesRedo ==
  [][ /\ \A p \in EditPts : CommitStep(p) =>
            /\ Len(shapes') = Len(shapes) + 1
            /\ lastUndoneShape' = None
      /\ (redo /\ lastUndoneShape = None) => shapes' = shapes
    ]_vars

\* a gesture in progress while the redo buffer is filled: its pointer-up is
\* the commit after an undo
C2_Witness ==
  /\ lastUndoneShape # None /\ isDrawing /\ Len(shapes) < MaxShapes
  /\ currentTool = "brush" \/ (startPoint # None /\ currentTool = "solid")

\* C3: the redo buffer is one slot.  An undo overwrites what the buffer held,
\* a redo appends exactly the buffered shape and empties the buffer, and a
\* redo with the buffer empty changes neither store, buffer nor dirty flag.
C3_OneRedoLevel ==
  [][ /\ (undo /\ shapes # <<>> /\ lastUndoneShape # None) =>
            lastUndoneShape' = Some(Last(shapes))
      /\ (redo /\ lastUndoneShape # None) =>
            /\ Len(shapes') = Len(shapes) + 1
            /\ Last(shapes') = lastUndoneShape[1]
            /\ lastUndoneShape' = None
      /\ (redo /\ lastUndoneShape = None) =>
            UNCHANGED <<shapes, lastUndoneShape, isDirty>>
    ]_vars

\* the store emptied by undos with the redo buffer filled
C3_Witness == shapes = <<>> /\ lastUndoneShape # None /\ isDirty

\* C4: every call of eraseAt leaves the redo buffer empty.
C4_EraseClearsRedo ==
  [][ \A p \in EditPts : EraseStep(p) => lastUndoneShape' = None ]_vars

\* an erase gesture that removed the whole store
C4_Witness ==
  /\ isErasing /\ currentTool = "eraser" /\ hoverWorld # None
  /\ shapes = <<>> /\ isDirty /\ lastUndoneShape = None

(***************************************************************************)
(* C5..C7: the eraser.  The reference below decides "within the radius"    *)
(* without a division and without a projection: it compares squares, and   *)
(* for a foot inside the segment it uses the cross product.                *)
(***************************************************************************)
Dot(ux, uy, vx, vy) == RAdd(RMul(ux, vx), RMul(uy, vy))

\* |u| <= eraserSizePx / scale
NearPoint(ux, uy) ==
  RLe(RMul(Dot(ux, uy, ux, uy), RMul(scale, scale)), R(eraserSizePx * eraserSizePx))

\* the closest point of the finite segment [a, b] is within the radius of w
NearSegment(w, a, b) ==
  LET abx == RSub(b.x, a.x)
      aby == RSub(b.y, a.y)
      apx == RSub(w.x, a.x)
      apy == RSub(w.y, a.y)
      len2 == Dot(abx, aby, abx, aby)
      dot == Dot(apx, apy, abx, aby)
      cross == RSub(RMul(apx, aby), RMul(apy, abx))
  IN  IF len2 = R(0) \/ RLe(dot, R(0)) THEN NearPoint(apx, apy)
      ELSE IF RLe(len2, dot) THEN NearPoint(RSub(w.x, b.x), RSub(w.y, b.y))
      ELSE RLe(RMul(RMul(cross, cross), RMul(scale, scale)),
               RMul(R(eraserSizePx * eraserSizePx), len2))

NearPath(w, pts) ==
  IF Len(pts) = 0 THEN FALSE
  ELSE IF Len(pts) = 1 THEN NearPoint(RSub(w.x, pts[1].x), RSub(w.y, pts[1].y))
  ELSE \E i \in 1..(Len(pts) - 1) : NearSegment(w, pts[i], pts[i + 1])

IsSegment(s) == s.type = "segment"
IsPath(s) == s.type = "path"

\* C5: an eraseAt at world point w, with radius eraserSizePx / scale, removes
\* a segment if and only if the closest point of the finite segment
\* [start, end] (a zero-length segment being a point) is within the radius of
\* w; the segments farther away survive, unchanged and in order.
C5_EraserSegmentRule ==
  [][ \A p \in ErasePts :
        EraseStep(p) =>
          LET w == screenToWorld(p)
              Survives(s) == IsSegment(s) /\ ~NearSegment(w, s.start, s.end)
          IN  SelectSeq(shapes', IsSegment) = SelectSeq(shapes, Survives) ]_vars

\* an erase gesture has removed a segment of the saved page that is within
\* the radius of the pointer, and has left one that is farther away
C5_Witness ==
  /\ isErasing /\ hoverWorld # None /\ pages # <<>>
  /\ \E i \in 1..Len(pages[1].shapes) :
       LET s == pages[1].shapes[i]
       IN  /\ IsSegment(s) /\ NearSegment(hoverWorld[1], s.start, s.end)
           /\ \A j \in 1..Len(shapes) : shapes[j] # s
  /\ \E j \in 1..Len(shapes) :
       /\ IsSegment(shapes[j])
       /\ ~NearSegment(hoverWorld[1], shapes[j].start, shapes[j].end)

\* C6: an eraseAt removes a brush path of two or more points as a whole if
\* one of its consecutive point pairs is within the radius, and leaves it
\* whole otherwise; a one-point path goes iff its point is within the radius;
\* an empty path is never removed.  A path that stays keeps all its points.
C6_BrushAllOrNothing ==
  [][ \A p \in ErasePts :
        EraseStep(p) =>
          LET w == screenToWorld(p)
              Survives(s) == IsPath(s) /\ ~NearPath(w, s.points)
          IN  /\ SelectSeq(shapes', IsPath) = SelectSeq(shapes, Survives)
              /\ \A i \in 1..Len(shapes) :
                   (IsPath(shapes[i]) /\ shapes[i].points = <<>>) =>
                     \E j \in 1..Len(shapes') : shapes'[j] = shapes[i] ]_vars

\* an erase gesture has removed the three-point path of the saved page: its
\* first point pair is farther than the radius, its second pair is within
C6_Witness ==
  /\ isErasing /\ hoverWorld # None /\ pages # <<>>
  /\ \E i \in 1..Len(pages[1].shapes) :
       LET s == pages[1].shapes[i]
       IN  /\ IsPath(s) /\ Len(s.points) = 3
           /\ ~NearSegment(hoverWorld[1], s.points[1], s.points[2])
           /\ NearSegment(hoverWorld[1], s.points[2], s.points[3])
           /\ \A j \in 1..Len(shapes) : shapes[j] # s

\* C7: a second eraseAt at the same world point, with the same scale and
\* eraser size, right after the first leaves the store, the redo buffer and
\* the dirty flag as the first left them.
C7_EraseIdempotent ==
  [][ \A p \in ErasePts :
        EraseStep(p) =>
          LET w == screenToWorld(p)
              again == Kept(shapes', w)
          IN  /\ scale' = scale /\ eraserSizePx' = eraserSizePx
              /\ again = shapes'
              /\ lastUndoneShape' = None
              /\ isDirty' = ((Len(again) # Len(shapes')) \/ isDirty') ]_vars

\* an erase has just removed both shapes of the page with one sample
C7_Witness ==
  /\ isErasing /\ hoverWorld # None /\ isDirty /\ pages # <<>>
  /\ shapes = <<>> /\ lastUndoneShape = None
  /\ \A i \in 1..Len(pages[1].shapes) : EraseHits(pages[1].shapes[i], hoverWorld[1])

(***************************************************************************)
(* C8..C10: the view transform.                                            *)
(***************************************************************************)
\* C8: in every reachable state (after the load, wheel events in both
\* directions, saving, creating, switching and deleting pages) the scale is
\* at least 0.2 and at most 6; in particular it is positive.
C8_ScaleClamp ==
  /\ RLe(<<1, 5>>, scale) /\ RLe(scale, R(6))
  /\ RLt(R(0), scale)
  /\ \A i \in 1..Len(pages) :
       pages[i].scale # None =>
         RLe(<<1, 5>>, pages[i].scale[1]) /\ RLe(pages[i].scale[1], R(6))

\* wheel events have taken the scale to the lower limit of the range, the
\* page was saved with it, and a second page exists
C8_Witness ==
  /\ wheels > 0
  /\ scale = <<1, 5>>
  /\ Len(pages) > 1
  /\ \E i \in 1..Len(pages) : pages[i].scale = Some(<<1, 5>>)

\* C9: a wheel event at screen point s keeps the world point under the
\* pointer where it is: with w the world image of s before the event, the
\* screen image of w after the event is s, whether the scale changed or the
\* clamp made the event a no-op.
C9_ZoomToCursor ==
  [][ \A s \in ViewPts, z \in ZoomFactors :
        handleWheel(s, z) =>
          \A w \in {screenToWorld(s)} : (worldToScreen(w))' = s ]_vars

\* after two wheel events the scale is neither 1 nor a limit of the range,
\* and the offset has moved
C9_Witness ==
  /\ wheels = MaxWheel
  /\ scale \notin {R(1), <<1, 5>>, R(6)}
  /\ offset # Origin

\* C10: with the scale in [0.2, 6] and any offset, screenToWorld undoes
\* worldToScreen on every world point, and worldToScreen undoes
\* screenToWorld on every screen point.
ProbePts == {IPt(0, 0), IPt(20, 5), IPt(-7, 3), Pt(<<1, 3>>, <<-5, 2>>)}

C10_TransformInverse ==
  (RLe(<<1, 5>>, scale) /\ RLe(scale, R(6))) =>
    \A p \in ProbePts :
      /\ screenToWorld(worldToScreen(p)) = p
      /\ worldToScreen(screenToWorld(p)) = p

\* a view that was zoomed and then panned
C10_Witness ==
  /\ wheels > 0 /\ pans > 0
  /\ scale # R(1)
  /\ offset.x[2] # 1

(***************************************************************************)
(* C11..C13: snapping.                                                     *)
(***************************************************************************)
\* the endpoints of the store, as a set
EndpointSet ==
  UNION { IF shapes[i].type = "segment"
          THEN {shapes[i].start, shapes[i].end}
          ELSE IF shapes[i].points = <<>> THEN {}
          ELSE {shapes[i].points[1], Last(shapes[i].points)} :
          i \in 1..Len(shapes) }
\* the square of the distance of two world points on the screen, in pixels
PixelDistSq(a, b) ==
  RMul(RMul(scale, scale), HypotSq(RSub(a.x, b.x), RSub(a.y, b.y)))
NearEndpoints(w) == {e \in EndpointSet : RLe(PixelDistSq(w, e), R(144))}
Nearest(w, e) ==
  /\ e \in NearEndpoints(w)
  /\ \A f \in EndpointSet : RLe(PixelDistSq(w, e), PixelDistSq(w, f))

\* C11: with c the world image of the pointer, a segment gesture starts at
\* an endpoint of the store that is at most 12 px from c on the screen and
\* no farther from c than any other endpoint, when there is one, and at c
\* itself when there is none; the snap marker of a pointer-move is such an
\* endpoint, or none when no endpoint is within 12 px.
C11_EndpointSnap ==
  [][ \A p \in DrawPts : \A c \in {screenToWorld(p)} :
        /\ SegmentDown(p) =>
             IF NearEndpoints(c) = {} THEN startPoint' = Some(c)
             ELSE \E e \in EndpointSet : Nearest(c, e) /\ startPoint' = Some(e)
        /\ SegmentMove(p) =>
             IF NearEndpoints(c) = {} THEN snapPreview' = None
             ELSE \E e \in EndpointSet : Nearest(c, e) /\ snapPreview' = Some(e) ]_vars

\* a gesture started at the end (3,4) of the stored path, 10 px from the
\* pointer at the scale 2, where the other end of the path is 16 px away
C11_Witness ==
  /\ isDrawing /\ currentTool \in DrawTools
  /\ scale = R(2)
  /\ startPoint = Some(IPt(3, 4))

\* the end point the code's rule gives a segment gesture with the pointer at
\* the world point c: the matching endpoint, else the axis snap from the start
SnapEnd(c) ==
  IF snapToEndpoints(c) # None THEN snapToEndpoints(c)[1]
  ELSE snapAxisFromStart(startPoint[1], c)
\* r is a nearest endpoint within 12 px of c when there is one, and the axis
\* snap of c when there is none
EndpointFirst(c, r) ==
  IF NearEndpoints(c) # {} THEN Nearest(c, r)
  ELSE r = snapAxisFromStart(startPoint[1], c)

\* C12: on a pointer-move and on a pointer-up of a segment gesture the end
\* point is an endpoint within the tolerance whenever one matches, axis and
\* diagonal snapping being applied only when none does; and both handlers
\* compute the same end point from the same pointer position and store.
C12_SnapPriority ==
  [][ \A p \in ReleasePts : \A c \in {screenToWorld(p)} :
        /\ (SegmentMove(p) /\ startPoint # None) =>
             /\ previewEnd' # None /\ EndpointFirst(c, previewEnd'[1])
             /\ previewEnd' = Some(SnapEnd(c))
        /\ SegmentUp(p) =>
             /\ Len(shapes') = Len(shapes) + 1
             /\ EndpointFirst(c, Last(shapes').end)
             /\ Last(shapes').end = SnapEnd(c) ]_vars

\* a segment from (100,6) released at (0,0), 5 px from the end (3,4) of the
\* stored path: it ends at (3,4), where the axis snap alone would have put
\* its end at (0,6)
C12_Witness ==
  /\ Len(shapes) = 2
  /\ shapes[2].type = "segment"
  /\ shapes[2].start = IPt(100, 6)
  /\ shapes[2].end = IPt(3, 4)

\* decimal brackets of the tangents:
\* Tan10Lo < tan 10 < Tan10Hi, Tan35 < tan 35 and tan 55 < Tan55
Tan10Lo == <<1763, 10000>>
Tan10Hi == <<1764, 10000>>
Tan35 == <<7002, 10000>>
Tan55 == <<14282, 10000>>
\* the direction (dx, dy) is within 10 degrees of the axis dx runs along
AlongAxis(dx, dy) ==
  RLt(R(0), RAbs(dx)) /\ RLe(RAbs(dy), RMul(Tan10Lo, RAbs(dx)))
\* the direction (dx, dy) is more than 10 degrees from every multiple of 45
OffEveryAxis(dx, dy) ==
  \/ /\ RLt(RMul(Tan10Hi, RAbs(dx)), RAbs(dy))
     /\ RLt(RAbs(dy), RMul(Tan35, RAbs(dx)))
  \/ /\ RLt(RMul(Tan55, RAbs(dx)), RAbs(dy))
     /\ RLt(RMul(Tan10Hi, RAbs(dy)), RAbs(dx))
AxisRule(start, raw, r) ==
  IF AlongAxis(RSub(raw.x, start.x), RSub(raw.y, start.y))
  THEN r = Pt(raw.x, start.y)
  ELSE IF AlongAxis(RSub(raw.y, start.y), RSub(raw.x, start.x))
  THEN r = Pt(start.x, raw.y)
  ELSE OffEveryAxis(RSub(raw.x, start.x), RSub(raw.y, start.y)) => r = raw

\* C13: snapAxisFromStart(start, raw) is (raw.x, start.y) when the direction
\* from start to raw is within 10 degrees of 0 or 180 degrees, else
\* (start.x, raw.y) when it is within 10 degrees of +90 or -90 degrees, and
\* raw itself when it is more than 10 degrees from every multiple of 45
\* degrees; start (0,0) and raw (100,6) give (100,0).  The function is
\* applied by every pointer-move of a segment gesture that no endpoint
\* matches.
C13_AxisSnap ==
  [][ \A p \in DrawPts : \A c \in {screenToWorld(p)} :
        (SegmentMove(p) /\ startPoint # None /\ NearEndpoints(c) = {}) =>
          /\ previewEnd' = Some(snapAxisFromStart(startPoint[1], c))
          /\ AxisRule(startPoint[1], c, previewEnd'[1])
          /\ (startPoint[1] = IPt(0, 0) /\ c = IPt(100, 6)) =>
               previewEnd'[1] = IPt(100, 0) ]_vars

\* on the page without endpoints, the preview of a gesture from (0,0) with
\* the pointer at (100,6)
C13_Witness ==
  /\ EndpointSet = {}
  /\ isDrawing /\ startPoint = Some(IPt(0, 0))
  /\ hoverWorld = Some(IPt(100, 6))
  /\ previewEnd = Some(IPt(100, 0))

(***************************************************************************)
(* C14..C17: gestures.                                                     *)
(***************************************************************************)
\* C14: a pointer-down with the solid or dashed tool puts the gesture's start
\* at the endpoint-snapped down point, pointer-moves leave it there, and the
\* pointer-up (after any number of moves, none included) appends exactly one
\* segment to the store: from that start to the snapped up point, with the
\* tool as its style and the current colour and width.  The shapes stored
\* before are unchanged, the redo buffer is cleared and dirty is set.
C14_SegmentCommit ==
  [][ \A p \in GesturePts : \A c \in {screenToWorld(p)} :
        /\ SegmentDown(p) =>
             /\ isDrawing' /\ currentTool' = currentTool
             /\ startPoint' = Some(IF NearEndpoints(c) = {} THEN c
                                   ELSE snapToEndpoints(c)[1])
             /\ shapes' = shapes
        /\ SegmentMove(p) => startPoint' = startPoint /\ shapes' = shapes
        /\ SegmentUp(p) =>
             /\ shapes' = Append(shapes,
                                 [type |-> "segment", start |-> startPoint[1],
                                  end |-> SnapEnd(c), style |-> currentTool,
                                  color |-> strokeColor, width |-> strokeWidth])
             /\ lastUndoneShape' = None
             /\ isDirty' ]_vars

\* the saved segment was undone, and a dashed segment in the colour picked
\* during the gesture was committed by a click: it is alone in the store
\* and the redo buffer is empty
C14_Witness ==
  /\ Len(shapes) = 1
  /\ shapes[1].type = "segment" /\ shapes[1].style = "dashed"
  /\ shapes[1].color = GestureColor
  /\ shapes[1].start = shapes[1].end
  /\ lastUndoneShape = None
  /\ isDirty /\ ~isDrawing

\* C15: a brush gesture collects the world images of its pointer-down and
\* of each pointer-move, in order, and its pointer-up appends exactly one
\* path with exactly these points (the position of the pointer-up is not
\* one of them; a click stores a path of one point), in the current colour
\* and width; the redo buffer is cleared and dirty is set.
C15_BrushCommit ==
  [][ \A p \in BrushPts : \A c \in {screenToWorld(p)} :
        /\ BrushDown(p) =>
             isDrawing' /\ currentPath' = Some(<<c>>) /\ shapes' = shapes
        /\ (BrushMove(p) /\ currentPath # None) =>
             /\ isDrawing'
             /\ currentPath' = Some(Append(currentPath[1], c))
             /\ shapes' = shapes
        /\ (BrushUp(p) /\ currentPath # None) =>
             /\ shapes' = Append(shapes,
                                 [type |-> "path", points |-> currentPath[1],
                                  color |-> strokeColor, width |-> strokeWidth])
             /\ Len(Last(shapes').points) >= 1
             /\ lastUndoneShape' = None
             /\ isDirty' ]_vars

\* a click of the brush was undone, and a stroke through (0,0), (20,5) and
\* (0,0) again was committed: it is alone in the store and the redo buffer
\* no longer holds the one-point path
C15_Witness ==
  /\ Len(shapes) = 1 /\ shapes[1].type = "path"
  /\ shapes[1].points = <<IPt(0, 0), IPt(20, 5), IPt(0, 0)>>
  /\ lastUndoneShape = None
  /\ isDirty /\ ~isDrawing /\ currentPath = None

\* C16: when the pointer leaves the canvas during a segment or brush
\* gesture, the store, the redo buffer and the dirty flag stay as they are
\* and the start point, the live end, the current path and the snap marker
\* are discarded; only a pointer-down puts a gesture in progress again, and
\* no step that changes the store, the redo buffer or the dirty flag while
\* no gesture is in progress is a pointer-up.
C16_LeaveAborts ==
  [][ /\ LeaveInGesture =>
           /\ shapes' = shapes
           /\ lastUndoneShape' = lastUndoneShape
           /\ isDirty' = isDirty
           /\ ~isDrawing'
           /\ startPoint' = None /\ previewEnd' = None
           /\ currentPath' = None /\ snapPreview' = None
      /\ (~isDrawing /\ isDrawing') => \E p \in EditPts : handleMouseDown(p)
      /\ ( /\ ~isDrawing
           /\ \/ shapes' # shapes
              \/ lastUndoneShape' # lastUndoneShape
              \/ isDirty' # isDirty ) =>
           \A p \in EditPts : ~handleMouseUp(p) ]_vars

\* a segment gesture that the pointer can leave: its start, live end and
\* snap marker are set, the saved shape was undone and is in the redo buffer
C16_Witness ==
  /\ isDrawing /\ currentTool = "solid"
  /\ startPoint # None /\ previewEnd # None /\ snapPreview # None
  /\ lastUndoneShape # None

\* C17: Escape pressed during a segment gesture leaves the store, the redo
\* buffer and the dirty flag as they are and ends the gesture; only a
\* pointer-down puts a gesture in progress again, and no step that changes
\* the store while no gesture is in progress is a pointer-up: the pointer-up
\* that follows the Escape appends no shape.
C17_EscapeAborts ==
  [][ /\ EscapeInGesture =>
           /\ shapes' = shapes
           /\ lastUndoneShape' = lastUndoneShape
           /\ isDirty' = isDirty
           /\ ~isDrawing' /\ startPoint' = None /\ previewEnd' = None
      /\ (~isDrawing /\ isDrawing') => \E p \in GesturePts : handleMouseDown(p)
      /\ (~isDrawing /\ shapes' # shapes) =>
           \A p \in GesturePts : ~handleMouseUp(p) ]_vars

\* the snap marker of a gesture that Escape ended is still set (a commit or
\* a pointer-leave would have removed it), the store holds the saved segment
\* alone, unchanged and not dirty
C17_Witness ==
  /\ ~isDrawing /\ startPoint = None /\ snapPreview # None
  /\ currentTool \in GestureTools
  /\ Len(shapes) = 1 /\ ~isDirty /\ lastUndoneShape = None

(***************************************************************************)
(* C18: the dirty flag.                                                    *)
(***************************************************************************)
\* C18: the dirty flag is true after every operation that changes the shape
\* list (a commit, an erase that removes a shape, an undo on a non-empty
\* store, a redo with a filled buffer, clear) and after every operation that
\* changes the view (a pan move by a non-zero delta, a wheel event that
\* changes the scale).
C18_DirtyOnMutation ==
  [][ /\ \A p \in ViewPts :
           /\ CommitStep(p) => isDirty'
           /\ (EraseStep(p) /\ Len(shapes') < Len(shapes)) => isDirty'
           /\ (isPanning /\ handleMouseMove(p) /\ offset' # offset) => isDirty'
           /\ \A z \in ZoomFactors :
                (handleWheel(p, z) /\ scale' # scale) => isDirty'
      /\ (undo /\ shapes # <<>>) => isDirty'
      /\ (redo /\ lastUndoneShape # None) => isDirty'
      /\ clearAll => isDirty' ]_vars

(***************************************************************************)
(* C19, C20: the page list.                                                *)
(***************************************************************************)
\* there is a page, and the current page id is the id of a page in the list
CurrentInList ==
  /\ pages # <<>>
  /\ currentPageId # None
  /\ currentPageId[1] \in PageIds(pages)

\* C19: from a state with at least one page whose current id is in the
\* list, every create, save-as, rename, switch and delete leads to such a
\* state again; and deleting the only page leaves exactly one page, with a
\* new id, no shapes, scale 1 and offset (0,0), which is the current page,
\* and empties the working store.
C19_NeverZeroPages ==
  [][ /\ (CurrentInList /\ PageOp) => CurrentInList'
      /\ (CurrentInList /\ Len(pages) = 1 /\ deleteCurrentPage) =>
           /\ Len(pages') = 1
           /\ pages'[1].id \notin PageIds(pages)
           /\ pages'[1].shapes = <<>>
           /\ pages'[1].scale = Some(R(1))
           /\ pages'[1].offset = Some(Origin)
           /\ currentPageId' = Some(pages'[1].id)
           /\ shapes' = <<>> ]_vars

\* the only page was deleted: the page in the list is one the program made
\* ("Trang 1") after the first, it is current and stored, and the store is
\* empty at the initial view
C19_Witness ==
  /\ Len(pages) = 1
  /\ pages[1].id # 1 /\ pages[1].name = "Trang 1"
  /\ currentPageId = Some(pages[1].id)
  /\ storage.current = currentPageId
  /\ shapes = <<>> /\ scale = R(1) /\ offset = Origin

\* the stored value is absent, not an array, or an empty array
NothingStored ==
  \/ storage.pages = None
  \/ storage.pages[1].kind = "value"
  \/ storage.pages[1].kind = "array" /\ storage.pages[1].items = <<>>

\* C20: whatever is stored under the pages key, after the load step there
\* is at least one page, the current page id is set and is the id of a page
\* in the list, and the working store is a list of shapes; when the stored
\* value is absent, not an array or an empty array, the list is exactly one
\* fresh page without shapes.
C20_LoadRecovers ==
  [][ LoadPages =>
        /\ CurrentInList'
        /\ \A i \in 1..Len(shapes') : shapes'[i].type \in {"segment", "path"}
        /\ NothingStored =>
             /\ Len(pages') = 1
             /\ pages'[1] = FreshPage(pages'[1].id, "Trang 1")
             /\ shapes' = <<>> ]_vars

(***************************************************************************)
(* C21: saving a page and coming back to it.                               *)
(***************************************************************************)
\* what a page record holds of the drawing: shapes and view
Saved(pg) == <<pg.shapes, pg.scale, pg.offset>>

\* C21: commitSave writes the working shapes, scale and offset into the
\* record of the current page and clears dirty; the record of a page changes
\* only in a step that saves while that page is current; and a switch to a
\* page makes its record the working copy (the same shapes in the same
\* order, its scale and its offset) and leaves dirty false.  A page saved,
\* left and activated again without a save in between that targets it is
\* therefore back as it was saved.
C21_SaveActivateRoundTrip ==
  [][ /\ (CurrentInList /\ currentPageId' = currentPageId
          /\ isDrawing' = isDrawing /\ mounted /\ commitSave) =>
           /\ Saved(FindPage(pages', currentPageId[1]))
                = <<shapes, Some(scale), Some(offset)>>
           /\ ~isDirty'
      /\ \A id \in PageIds(pages) \cap PageIds(pages') :
           (pages' # pages /\ Saved(FindPage(pages', id)) # Saved(FindPage(pages, id))) =>
             /\ currentPageId = Some(id)
             /\ \/ commitSave
                \/ \E e \in BOOLEAN : isDirty /\ changeCurrentPage(currentPageId'[1], TRUE, e)
      /\ \A id \in PageIds(pages) :
           (/\ currentPageId # Some(id) /\ currentPageId' = Some(id)
            /\ \E ok \in BOOLEAN, e \in BOOLEAN : changeCurrentPage(id, ok, e)) =>
             /\ <<shapes', Some(scale'), Some(offset')>> = Saved(FindPage(pages, id))
             /\ Saved(FindPage(pages', id)) = Saved(FindPage(pages, id))
             /\ ~isDirty' ]_vars

\* page 1 is active again and not dirty, showing the two shapes and the
\* scale it was saved with, while the record of page 2 holds a shape that
\* was drawn and saved while page 2 was active
C21_Witness ==
  /\ Len(pages) = 2 /\ currentPageId = Some(1) /\ ~isDirty
  /\ Len(shapes) = 2 /\ scale # R(1)
  /\ Saved(FindPage(pages, 1)) = <<shapes, Some(scale), Some(offset)>>
  /\ FindPage(pages, 2).shapes # <<>>

(***************************************************************************)
(* C22, C23: the interaction state.                                        *)
(***************************************************************************)
\* C22: in every reachable state at most one of isDrawing, isPanning and
\* isErasing is true, under any interleaving of pointer, key and
\* tool-selection events.
C22_OneInteractionState ==
  /\ ~(isDrawing /\ isPanning)
  /\ ~(isDrawing /\ isErasing)
  /\ ~(isPanning /\ isErasing)

\* C23: after every pointer-up, also when the tool was changed since the
\* pointer-down, no gesture is in progress and neither a start point nor a
\* path remains.
C23_PointerUpIdle ==
  [][ (\E p \in ToolPts : handleMouseUp(p)) =>
        /\ Idle'
        /\ startPoint' = None
        /\ currentPath' = None ]_vars

(***************************************************************************)
(* C24: the store changes by appending or by removing.                     *)
(***************************************************************************)
\* b with some of its elements removed, the others in the same order
RECURSIVE Remains(_, _)
Remains(a, b) ==
  IF a = <<>> THEN TRUE
  ELSE IF b = <<>> THEN FALSE
  ELSE IF a[1] = b[1] THEN Remains(Tail(a), Tail(b))
  ELSE Remains(a, Tail(b))

\* C24: every step that is not the activation, creation or deletion of a
\* page changes the store only by appending one shape at the end or by
\* removing shapes; the shapes that remain keep content and order.
C24_AppendOrRemove ==
  [][ mounted =>
        \/ shapes' # <<>> /\ Front(shapes') = shapes
        \/ Remains(shapes', shapes) ]_vars

(***************************************************************************)
(* C29: the redo shortcut.                                                 *)
(***************************************************************************)
\* C29: Ctrl+Shift+Z has the effect of redo alone on store, redo buffer and
\* dirty flag: with a filled buffer it appends the buffered shape and removes
\* nothing, with an empty buffer it changes nothing.
C29_RedoShortcut ==
  [][ (\E eager \in BOOLEAN : onKeyCtrlShiftZ(eager)) =>
        IF lastUndoneShape = None
        THEN UNCHANGED <<shapes, lastUndoneShape, isDirty>>
        ELSE /\ shapes' = Append(shapes, lastUndoneShape[1])
             /\ lastUndoneShape' = None
             /\ isDirty' ]_vars

(***************************************************************************)
(* C25, C26: panning and zooming.                                          *)
(***************************************************************************)
\* a wheel event, or a step of a pan gesture
FrameStep ==
  \/ \E z \in ZoomFactors : handleWheel(WheelAt, z)
  \/ \E p \in FramePts : PanDown(p) \/ PanMove(p) \/ PanUp(p)
  \/ LeaveInPan

\* C25: a wheel event and every step of a pan gesture (pointer-down with no
\* tool, moves, pointer-up or pointer-leave) leave the store, the redo buffer
\* and the selected tool unchanged; and a filled redo buffer is redone by
\* redo in whatever view the page is shown.
C25_PanZoomFrame ==
  [][ /\ (\/ shapes' # shapes
          \/ lastUndoneShape' # lastUndoneShape
          \/ currentTool' # currentTool) => ~FrameStep
      /\ (lastUndoneShape # None /\ redo) =>
            /\ shapes' = Append(shapes, lastUndoneShape[1])
            /\ lastUndoneShape' = None ]_vars

\* the buffer is filled, and the view has been zoomed and panned
C25_Witness ==
  /\ lastUndoneShape # None /\ shapes = <<>>
  /\ wheels > 0 /\ pans > 1 /\ ~isPanning
  /\ scale \notin {R(1), R(6)}

\* C26: a pointer-down that starts a pan leaves offset and scale as they were
\* and remembers the pointer position; every pointer-move of the gesture adds
\* the difference between the pointer position and the remembered one to the
\* offset, at every scale, and leaves the scale as it was: offset minus
\* pointer position is the same after every move of the gesture.
C26_PanTranslation ==
  [][ \A p \in FramePts :
        /\ (isPanning' /\ pans' = pans /\ wheels' = wheels /\ PanDown(p)) =>
              /\ offset' = offset /\ scale' = scale
              /\ panLastRef' = Some(p)
        /\ (pans' # pans /\ PanMove(p)) =>
              /\ scale' = scale
              /\ panLastRef # None /\ panLastRef' = Some(p)
              /\ RSub(offset'.x, p.x) = RSub(offset.x, panLastRef[1].x)
              /\ RSub(offset'.y, p.y) = RSub(offset.y, panLastRef[1].y) ]_vars

\* two moves of one gesture at a scale other than 1: from (20,5) the pointer
\* has reached (0,60)
C26_Witness ==
  /\ isPanning /\ pans > 1 /\ scale # R(1)
  /\ panLastRef = Some(IPt(0, 60))
  /\ offset # Origin

(***************************************************************************)
(* C27: an erase that hits nothing.                                        *)
(***************************************************************************)
\* C27: an eraseAt at a point with no shape of the store within the radius
\* leaves the store, the dirty flag and the redo buffer unchanged.
C27_MissIsNoOp ==
  [][ \A p \in ErasePts :
        (Kept(shapes, screenToWorld(p)) = shapes /\ EraseStep(p)) =>
          UNCHANGED <<shapes, isDirty, lastUndoneShape>> ]_vars

(***************************************************************************)
(* C28: repainting.                                                        *)
(***************************************************************************)
\* the dependency list of the drawAll callback (worldToScreen and
\* screenToWorld depend on scale and offset)
drawAllDeps ==
  <<shapes, isDrawing, startPoint, previewEnd, currentTool, strokeColor,
    strokeWidth, scale, offset, currentPath>>

\* the effect that calls drawAll after a render runs when the render made a
\* new drawAll, that is when a dependency changed
drawAllEffect == drawAllDeps' # drawAllDeps

\* a pointer-move with no button pressed: handleMouseMove sets hoverWorld and
\* returns without requesting a frame
HoverMove(p) == ~isPanning /\ ~isErasing /\ ~isDrawing /\ handleMouseMove(p)

\* C28: with the eraser selected and no button pressed, every pointer-move
\* to a new hover position is followed by a repaint that draws the eraser
\* outline at the new position.
C28_RepaintOnHover ==
  [][ \A p \in ErasePts :
        (currentTool = "eraser" /\ HoverMove(p) /\ hoverWorld' # hoverWorld) =>
          drawAllEffect ]_vars

(***************************************************************************)
(* C30: redo and pages.                                                    *)
(***************************************************************************)
\* C30: redo never brings a shape to a page on which it was not drawn: when
\* nothing is drawn and no page is saved while it is shown, every shape of
\* the working store is in the saved shape list of the current page.
C30_RedoStaysOnPage ==
  CurrentInList =>
    \A i \in DOMAIN shapes :
      \E j \in DOMAIN FindPage(pages, currentPageId[1]).shapes :
        shapes[i] = FindPage(pages, currentPageId[1]).shapes[j]

(***************************************************************************)
(* C31: saving while switching.                                            *)
(***************************************************************************)
\* C31: when a dirty page is left for page id and the question whether to
\* save is confirmed, then after the switch localStorage holds, for the page
\* that was left, the shapes, scale and offset it had at the switch, and
\* holds id as the current page id.
C31_SaveThenSwitchPersists ==
  [][ \A id \in PageIds(pages) :
        (/\ isDirty /\ CurrentInList
         /\ currentPageId # Some(id) /\ currentPageId' = Some(id)
         /\ \E eager \in BOOLEAN : changeCurrentPage(id, TRUE, eager)) =>
          /\ storage'.current = Some(id)
          /\ storage'.pages # None
          /\ currentPageId[1] \in PageIds(JSONparse(storage'.pages[1]))
          /\ Saved(FindPage(JSONparse(storage'.pages[1]), currentPageId[1]))
               = <<shapes, Some(scale), Some(offset)>> ]_vars

====
